---- MODULE Spec2Model ----
(***************************************************************************)
(* Account service of server.js: asynchronous store initialisation, the   *)
(* POST /api/register handler and the POST /api/login handler, running    *)
(* against one relational table users(id, name, email UNIQUE, password).  *)
(*                                                                         *)
(* Strings are sequences of one-character strings, so that trim() and     *)
(* toLowerCase() are computed and not assumed.  A JSON body field is a    *)
(* record [k, s]: k = "absent" (undefined), "str" (a string, s its        *)
(* characters) or "num" (a non-zero number: truthy, but without .trim).   *)
(***************************************************************************)
EXTENDS Integers, Sequences, FiniteSets, TLC

VARIABLES
    initPc,       \* position of the async init IIFE (lines 24-50)
    db,           \* the global store handle `let db` (line 23)
    tableExists,  \* whether the users table exists in the store
    rows,         \* the users table, in insertion order
    nextId,       \* AUTO_INCREMENT counter of users.id
    req,          \* the requests: inputs, handler position, response
    now           \* wall clock, in days

vars == <<initPc, db, tableExists, rows, nextId, req, now>>

\* ------------------------------------------------------------------ bounds
MaxReqs == 2      \* requests received in one run
MaxTicks == 1     \* clock ticks in one run

\* --------------------------------------------------------------- constants
ExpiresInDays == 30   \* { expiresIn: "30d" }

Reqs == 1..MaxReqs

\* ----------------------------------------------------------------- strings
Str(s) == [k |-> "str", s |-> s]
Absent == [k |-> "absent", s |-> <<>>]
Num    == [k |-> "num", s |-> <<>>]

IsWs(c) == c = " "

RECURSIVE TrimStart(_)
TrimStart(s) ==
    IF s # <<>> /\ IsWs(Head(s)) THEN TrimStart(Tail(s)) ELSE s

RECURSIVE TrimEnd(_)
TrimEnd(s) ==
    IF s # <<>> /\ IsWs(s[Len(s)]) THEN TrimEnd(SubSeq(s, 1, Len(s) - 1)) ELSE s

\* String.prototype.trim
Trim(s) == TrimEnd(TrimStart(s))

LowerChar(c) ==
    CASE c = "A" -> "a"
      [] c = "B" -> "b"
      [] c = "C" -> "c"
      [] OTHER -> c

\* String.prototype.toLowerCase
ToLowerCase(s) == [i \in DOMAIN s |-> LowerChar(s[i])]

\* JavaScript truthiness of a body field: undefined and "" are falsy
Truthy(v) == (v.k = "str" /\ v.s # <<>>) \/ v.k = "num"

IsString(v) == v.k = "str"

\* ------------------------------------------------------------ pure helpers
\* variant of RegisterValid: the fields are trimmed before the check
RegisterValidTrimmed(name, email, password) ==
    /\ name.k = "str" /\ Trim(name.s) # <<>>
    /\ email.k = "str" /\ Trim(email.s) # <<>>
    /\ password.k = "str" /\ Trim(password.s) # <<>>

\* `!name || !email || !password` (line 77): TRUE when the body passes
RegisterValid(name, email, password) ==
    Truthy(name) /\ Truthy(email) /\ Truthy(password)

\* `!email || !password` (line 95): TRUE when the body passes
LoginValid(email, password) == Truthy(email) /\ Truthy(password)

\* variant of StoredName: trimmed, without the "User" default
StoredNameNoDefault(s) == Trim(s)

\* `name.trim() || "User"` (line 84)
StoredName(s) == IF Trim(s) # <<>> THEN Trim(s) ELSE <<"U", "s", "e", "r">>

\* variant of NormalizeEmail: the email stored and looked up as sent
NormalizeEmailRaw(s) == s

\* variant of NormalizeEmail: trimmed but not lower-cased
NormalizeEmailTrimOnly(s) == Trim(s)

\* `email.trim().toLowerCase()` (lines 84 and 100)
NormalizeEmail(s) == ToLowerCase(Trim(s))

\* `bcrypt.hash(password, 10)` (line 81): one-way, so a hash is a value
\* distinct from every plaintext that only Compare can relate to one
Hash(pw) == [alg |-> "bcrypt", cost |-> 10, of |-> pw]

\* variant of Compare: the result of the comparison is not honoured
CompareAlways(pw, hashed) == TRUE

\* `bcrypt.compare(password, user.password)` (line 106)
Compare(pw, hashed) == hashed = Hash(pw)

\* `user.name?.trim() || "User"` (line 111)
SafeName(s) == IF Trim(s) # <<>> THEN Trim(s) ELSE <<"U", "s", "e", "r">>

\* `jwt.sign({id, name, email}, secret, {expiresIn: "30d"})` (lines 113-117)
Sign(user, t) ==
    [id |-> user.id, name |-> SafeName(user.name), email |-> user.email,
     iat |-> t, exp |-> t + ExpiresInDays]

NoToken == [id |-> 0, name |-> <<>>, email |-> <<>>, iat |-> 0, exp |-> 0]

\* ------------------------------------------------------------- the store
\* variant of UniqueViolation: the email column without UNIQUE
UniqueViolationDropped(rs, email) == FALSE

\* `email VARCHAR(255) UNIQUE NOT NULL` (line 40): an insert whose email is
\* already in the table is rejected
UniqueViolation(rs, email) == \E i \in DOMAIN rs : rs[i].email = email

\* variant of InsertUser: the row is written before the uniqueness check
\* rejects the statement (a partial write)
InsertUserPartial(rs, id, name, email, hashed, t) ==
    Append(rs, [id |-> id, name |-> name, email |-> email,
                password |-> hashed, created_at |-> t])

\* `INSERT INTO users (name, email, password) VALUES (?, ?, ?)` (line 83):
\* the table after the statement; unchanged when the statement is rejected
InsertUser(rs, id, name, email, hashed, t) ==
    IF UniqueViolation(rs, email)
    THEN rs
    ELSE Append(rs, [id |-> id, name |-> name, email |-> email,
                     password |-> hashed, created_at |-> t])

\* `SELECT * FROM users WHERE email = ?` (line 99)
SelectByEmail(rs, email) == SelectSeq(rs, LAMBDA u : u.email = email)

\* ------------------------------------------------------------- responses
NoResp == [status |-> 0, message |-> "", success |-> FALSE, token |-> NoToken]

Resp(status, message) ==
    [status |-> status, message |-> message, success |-> FALSE,
     token |-> NoToken]

AllFieldsRequired == Resp(400, "All fields required")
AccountCreated ==
    [status |-> 200, message |-> "Account created!", success |-> TRUE,
     token |-> NoToken]
EmailAlreadyExists == Resp(400, "Email already exists")
EmailAndPasswordRequired == Resp(400, "Email and password required")
InvalidEmailOrPassword == Resp(401, "Invalid email or password")
\* line 122 (the dash of the message is written in ASCII here)
ServerError == Resp(500, "Server error - check terminal")
LoggedIn(token) ==
    [status |-> 200, message |-> "", success |-> TRUE, token |-> token]

\* -------------------------------------------------------------- requests
Idle ==
    [kind |-> "none", pc |-> "idle", name |-> Absent, email |-> Absent,
     password |-> Absent, resp |-> NoResp, fault |-> FALSE, found |-> FALSE]

Done(r) == req[r].pc = "done"

\* the event loop dispatches a request: module evaluation and its
\* microtasks are over (the pool is assigned), the process has not exited,
\* and requests are numbered in arrival order
CanReceive(r) ==
    /\ initPc \notin {"createPool", "exited"}
    /\ req[r].pc = "idle"
    /\ IF r = 1 THEN TRUE ELSE req[r - 1].pc # "idle"

Running == initPc # "exited"

\* ---------------------------------------------------------------- inputs
sAl    == <<" ", "A", "l">>
sBlank == <<" ">>
eUpper == <<"A", "@", "B", " ">>
eLower == <<" ", "a", "@", "b">>
eOther == <<"c">>
pP     == <<"p">>
pQ     == <<"q">>

Names     == {Absent, Str(<<>>), Str(sBlank), Str(sAl)}
Emails    == {Absent, Str(<<>>), Str(sBlank), Str(eUpper), Str(eLower)}
Passwords == {Absent, Str(<<>>), Str(sBlank), Str(pP), Num}

\* request bodies {name, email, password}: a good body with one field
\* varied, and a second good body for the same normalized email
RegisterInputs ==
    {<<n, Str(eUpper), Str(pP)>> : n \in Names}
      \cup {<<Str(sAl), e, Str(pP)>> : e \in Emails}
      \cup {<<Str(sAl), Str(eUpper), p>> : p \in Passwords}
      \cup {<<Str(sBlank), Str(eLower), Str(pQ)>>}

\* request bodies {email, password}: a good body with one field varied
LoginInputs ==
    {<<e, Str(pP)>> : e \in (Emails \ {Str(eUpper)}) \cup {Str(eOther), Num}}
      \cup {<<Str(eLower), p>> : p \in Passwords \cup {Str(pQ)}}

\* created_at of a row written before this process started (line 42)
BeforeBoot == 0 - 1

\* the store the process starts against: a first boot (no users table yet)
\* or a restart (the table of an earlier run, holding a registered user)
InitialStores ==
    { [tableExists |-> FALSE, rows |-> <<>>],
      [tableExists |-> TRUE,
       rows |-> <<[id |-> 1, name |-> <<"A", "l">>,
                   email |-> <<"a", "@", "b">>, password |-> Hash(pP),
                   created_at |-> BeforeBoot]>>] }

\* -------------------------------------------------------------- Init
Init ==
    /\ initPc = "createPool"
    /\ db = "undefined"
    /\ \E st \in InitialStores :
          /\ tableExists = st.tableExists
          /\ rows = st.rows
          /\ nextId = Len(st.rows) + 1
    /\ req = [r \in Reqs |-> Idle]
    /\ now = 0

\* ------------------------------------------------- store initialisation
\* line 26: `db = await mysql.createPool(...)` resumes in a microtask,
\* assigns the handle and issues CREATE TABLE (line 36)
PoolCreated ==
    /\ initPc = "createPool"
    /\ db' = "pool"
    /\ initPc' = "createTable"
    /\ UNCHANGED <<tableExists, rows, nextId, req, now>>

\* lines 36-49: CREATE TABLE IF NOT EXISTS settles; a rejection (store
\* unreachable) is caught and ends the process with process.exit(1)
CreateTable ==
    /\ initPc = "createTable"
    /\ \E ok \in BOOLEAN :
          IF ok
          THEN /\ tableExists' = TRUE
               /\ initPc' = "ready"
          ELSE /\ initPc' = "exited"
               /\ UNCHANGED tableExists
    /\ UNCHANGED <<db, rows, nextId, req, now>>

\* --------------------------------------------------- POST /api/register
\* lines 76-81: destructure, validate, start bcrypt.hash
RegisterReceive(r) ==
    /\ CanReceive(r)
    /\ \E in \in RegisterInputs :
          LET q == [Idle EXCEPT !.kind = "register", !.name = in[1],
                                !.email = in[2],
                                !.password = in[3]]
          IN  IF ~RegisterValid(in[1], in[2], in[3])
              THEN req' = [req EXCEPT ![r] =
                      [q EXCEPT !.pc = "done", !.resp = AllFieldsRequired]]
              ELSE req' = [req EXCEPT ![r] = [q EXCEPT !.pc = "hashing"]]
    /\ UNCHANGED <<initPc, db, tableExists, rows, nextId, now>>

\* lines 81-89: the hash settles, the INSERT is issued and settles, the
\* response is sent; every rejection or throw inside the try lands in the
\* catch of line 87
RegisterInsert(r) ==
    /\ Running
    /\ req[r].kind = "register"
    /\ req[r].pc = "hashing"
    /\ LET q == req[r]
           threw == \/ ~IsString(q.password)   \* bcrypt.hash rejects
                    \/ ~IsString(q.name)       \* name.trim is not a function
                    \/ ~IsString(q.email)      \* email.trim is not a function
                    \/ db = "undefined"        \* db.query on undefined
       IN  IF threw
           THEN /\ req' = [req EXCEPT ![r] =
                      [q EXCEPT !.pc = "done", !.resp = EmailAlreadyExists,
                                !.fault = TRUE]]
                /\ UNCHANGED <<rows, nextId>>
           ELSE \E storeOk \in BOOLEAN :
                  IF ~storeOk \/ ~tableExists
                  THEN /\ req' = [req EXCEPT ![r] =
                             [q EXCEPT !.pc = "done",
                                       !.resp = EmailAlreadyExists,
                                       !.fault = TRUE]]
                       /\ UNCHANGED <<rows, nextId>>
                  ELSE LET email == NormalizeEmail(q.email.s)
                           dup == UniqueViolation(rows, email)
                       IN  /\ rows' = InsertUser(rows, nextId,
                                         StoredName(q.name.s), email,
                                         Hash(q.password.s), now)
                           /\ nextId' = IF dup THEN nextId ELSE nextId + 1
                           /\ req' = [req EXCEPT ![r] =
                                 [q EXCEPT !.pc = "done",
                                           !.resp = IF dup
                                                    THEN EmailAlreadyExists
                                                    ELSE AccountCreated]]
    /\ UNCHANGED <<initPc, db, tableExists, now>>

\* ------------------------------------------------------ POST /api/login
\* line 103: the response when no row matches the email
NoSuchUser == InvalidEmailOrPassword

\* variant of WrongPassword: a message of its own for a wrong password
WrongPasswordLeaky == Resp(401, "Wrong password")

\* line 108: the response when the password does not match the hash
WrongPassword == InvalidEmailOrPassword

\* lines 94-101: destructure, validate, issue the SELECT
LoginReceive(r) ==
    /\ CanReceive(r)
    /\ \E in \in LoginInputs :
          LET q == [Idle EXCEPT !.kind = "login", !.email = in[1],
                                !.password = in[2]]
          IN  IF ~LoginValid(in[1], in[2])
              THEN req' = [req EXCEPT ![r] =
                      [q EXCEPT !.pc = "done",
                                !.resp = EmailAndPasswordRequired]]
              ELSE IF ~IsString(in[1]) \/ db = "undefined"
              THEN req' = [req EXCEPT ![r] =
                      [q EXCEPT !.pc = "done", !.resp = ServerError,
                                !.fault = TRUE]]
              ELSE req' = [req EXCEPT ![r] = [q EXCEPT !.pc = "querying"]]
    /\ UNCHANGED <<initPc, db, tableExists, rows, nextId, now>>

\* what lines 102-119 answer to the rows the SELECT returned
LoginAnswer(found, password, t) ==
    IF found = <<>>
    THEN NoSuchUser
    ELSE IF ~IsString(password)
    THEN ServerError                       \* bcrypt.compare rejects
    ELSE IF ~Compare(password.s, found[1].password)
    THEN WrongPassword
    ELSE LoggedIn(Sign(found[1], t))

\* lines 98-123: the SELECT settles, the password is compared, the token is
\* signed and the response is sent
LoginFinish(r) ==
    /\ Running
    /\ req[r].kind = "login"
    /\ req[r].pc = "querying"
    /\ LET q == req[r]
       IN  \E storeOk \in BOOLEAN :
             IF ~storeOk \/ ~tableExists
             THEN req' = [req EXCEPT ![r] =
                     [q EXCEPT !.pc = "done", !.resp = ServerError,
                               !.fault = TRUE]]
             ELSE LET found == SelectByEmail(rows, NormalizeEmail(q.email.s))
                      ans == LoginAnswer(found, q.password, now)
                  IN  req' = [req EXCEPT ![r] =
                         [q EXCEPT !.pc = "done", !.resp = ans,
                                   !.found = (found # <<>>),
                                   !.fault = (ans = ServerError)]]
    /\ UNCHANGED <<initPc, db, tableExists, rows, nextId, now>>

\* ----------------------------------------------------------------- time
\* time passes: one validity window of a token (line 116)
Tick ==
    /\ now < MaxTicks * ExpiresInDays
    /\ now' = now + ExpiresInDays
    /\ UNCHANGED <<initPc, db, tableExists, rows, nextId, req>>

\* ------------------------------------------------------------------ Spec
Next ==
    \/ PoolCreated
    \/ CreateTable
    \/ \E r \in Reqs : RegisterReceive(r)
    \/ \E r \in Reqs : RegisterInsert(r)
    \/ \E r \in Reqs : LoginReceive(r)
    \/ \E r \in Reqs : LoginFinish(r)
    \/ Tick

Spec == Init /\ [][Next]_vars

\* ====================================================================
\* Properties
\* ====================================================================
User == <<"U", "s", "e", "r">>

\* trim + lower-case, as the properties read it
Canon(s) == ToLowerCase(Trim(s))

IsRegister(r) == req[r].kind = "register"
IsLogin(r) == req[r].kind = "login"

\* a body field that is a string, non-empty after trimming
Filled(v) == v.k = "str" /\ Trim(v.s) # <<>>

\* a body field that is absent, or a string that is empty after trimming
Blank(v) == v.k = "absent" \/ (v.k = "str" /\ Trim(v.s) = <<>>)

\* a body field that is absent or the empty string
Missing(v) == v.k = "absent" \/ (v.k = "str" /\ v.s = <<>>)

\* a register request that passed validation and was answered, and whose
\* hash and INSERT met no fault of the hasher or the store
CleanRegister(r) ==
    /\ IsRegister(r) /\ Done(r) /\ ~req[r].fault
    /\ req[r].resp # AllFieldsRequired

\* a register request whose three fields are valid
ValidFields(r) ==
    Filled(req[r].name) /\ Filled(req[r].email) /\ Filled(req[r].password)

\* the table held a row for this email before the process started
PreExisting(email) ==
    \E i \in DOMAIN rows :
        rows[i].email = email /\ rows[i].created_at = BeforeBoot

\* C1: among the answered register requests for one normalized email that
\* had no row beforehand (requests that passed validation and met no fault
\* of the store or the hasher), exactly one got 200 success and every other
\* one got 400 "Email already exists", whatever their order or interleaving.
C1_OneWinnerPerEmail ==
    \A r \in Reqs :
        (CleanRegister(r) /\ ~PreExisting(Canon(req[r].email.s))) =>
            \E w \in Reqs :
                /\ CleanRegister(w)
                /\ Canon(req[w].email.s) = Canon(req[r].email.s)
                /\ req[w].resp = AccountCreated
                /\ \A o \in Reqs \ {w} :
                      (CleanRegister(o)
                         /\ Canon(req[o].email.s) = Canon(req[r].email.s))
                      => req[o].resp = EmailAlreadyExists

\* two register requests whose emails differ as sent and agree once
\* normalized: one succeeded, the other was told the email exists
C1_Witness ==
    \E r1, r2 \in Reqs :
        /\ r1 # r2 /\ CleanRegister(r1) /\ CleanRegister(r2)
        /\ ValidFields(r1) /\ ValidFields(r2)
        /\ req[r1].email # req[r2].email
        /\ Canon(req[r1].email.s) = Canon(req[r2].email.s)
        /\ ~PreExisting(Canon(req[r1].email.s))
        /\ req[r1].resp = EmailAlreadyExists
        /\ req[r2].resp = AccountCreated

\* a login that passed validation and was answered without a fault
AnsweredLogin(r) ==
    /\ IsLogin(r) /\ Done(r) /\ ~req[r].fault
    /\ req[r].resp # EmailAndPasswordRequired

C3_UniqueNormalizedEmails ==
    /\ \A i, j \in DOMAIN rows : i # j => rows[i].email # rows[j].email
    /\ \A i \in DOMAIN rows : rows[i].email = Canon(rows[i].email)

\* two rows, one of them written by a register whose email needed
\* normalizing, after a second register for that email was answered
C3_Witness ==
    /\ Len(rows) >= 2
    /\ \E r \in Reqs :
          /\ CleanRegister(r) /\ req[r].resp = AccountCreated
          /\ req[r].email.s # Canon(req[r].email.s)
          /\ \E i \in DOMAIN rows : rows[i].email = Canon(req[r].email.s)

\* request r is answered in this step
Answers(r) == req[r].pc # "done" /\ req'[r].pc = "done"

\* C4: the step that answers a register request appends exactly one row to
\* the users table when the answer is the success response and leaves the
\* table as it was when the answer is any failure; the step that only
\* starts the request leaves the table as it was.
C4_RegisterFrame ==
    [][\A r \in Reqs :
          /\ (Answers(r) /\ req'[r].kind = "register") =>
                IF req'[r].resp.status = 200
                THEN /\ Len(rows') = Len(rows) + 1
                     /\ SubSeq(rows', 1, Len(rows)) = rows
                ELSE rows' = rows
          /\ (req[r].pc = "idle" /\ req'[r].pc = "hashing") => rows' = rows
      ]_vars

\* one register answered with success and one refused as a duplicate, the
\* table holding the single row of the first
C4_Witness ==
    /\ \E r \in Reqs : IsRegister(r) /\ Done(r) /\ req[r].resp = AccountCreated
    /\ \E r \in Reqs :
          /\ IsRegister(r) /\ Done(r)
          /\ req[r].resp = EmailAlreadyExists /\ ~req[r].fault
    /\ Len(rows) = 1

\* a register that failed on a fault of the store or the hasher
C4_FaultWitness ==
    \E r \in Reqs :
        /\ IsRegister(r) /\ Done(r) /\ req[r].fault
        /\ req[r].resp = EmailAlreadyExists

C6_LoginRejectsBlankFields ==
    \A r \in Reqs :
        (IsLogin(r) /\ (Blank(req[r].email) \/ Blank(req[r].password))) =>
            (Done(r) /\ req[r].resp = EmailAndPasswordRequired)

C8_LoginAfterRegister ==
    [][\A r1, r2 \in Reqs :
          ( /\ IsRegister(r1) /\ Done(r1) /\ req[r1].resp = AccountCreated
            /\ IsLogin(r2) /\ Answers(r2) /\ req[r2].pc = "querying"
            /\ ~req'[r2].fault
            /\ req[r2].password = req[r1].password
            /\ Trim(ToLowerCase(req[r2].email.s))
                 = Trim(ToLowerCase(req[r1].email.s)) )
          => /\ req'[r2].resp.status = 200
             /\ req'[r2].resp.success
             /\ req'[r2].resp.token # NoToken
      ]_vars

\* register "A@B " then login " a@b" ended with a token
C8_Witness ==
    \E r1, r2 \in Reqs :
        /\ IsRegister(r1) /\ Done(r1) /\ req[r1].resp = AccountCreated
        /\ IsLogin(r2) /\ Done(r2) /\ req[r2].resp.success
        /\ req[r1].email = Str(eUpper) /\ req[r2].email = Str(eLower)
        /\ req[r2].resp.token.email = <<"a", "@", "b">>

\* the token is rejected as expired by a verifier at the current time
Expired(t) == now >= t.exp

\* C9: a token is issued only to a login whose password matches the stored
\* hash of the row with the normalized login email; it carries that row's
\* id, name (trimmed, "User" if empty) and email, and it is expired exactly
\* from 30 days after it was issued.
C9_TokenMatchesRow ==
    \A r \in Reqs :
        (IsLogin(r) /\ Done(r) /\ req[r].resp.success) =>
            LET t == req[r].resp.token
            IN  /\ req[r].resp.status = 200
                /\ \E i \in DOMAIN rows :
                      /\ rows[i].email = Canon(req[r].email.s)
                      /\ rows[i].password = Hash(req[r].password.s)
                      /\ t.id = rows[i].id
                      /\ t.email = rows[i].email
                      /\ t.name = IF Trim(rows[i].name) = <<>>
                                  THEN User ELSE Trim(rows[i].name)
                      /\ rows[i].created_at <= t.iat
                /\ 0 <= t.iat /\ t.iat <= now
                /\ t.exp = t.iat + 30
                /\ Expired(t) <=> (now - t.iat >= 30)

\* a token issued at time 0 to the matching password has expired
C9_Witness ==
    \E r \in Reqs :
        /\ IsLogin(r) /\ Done(r) /\ req[r].resp.success
        /\ Expired(req[r].resp.token)
        /\ req[r].resp.token.iat = 0

\* C10: no request is in a handler or answered unless store initialisation
\* (pool and table creation) has completed; in particular none when the
\* process exited on a failed initialisation.
C10_NoRequestBeforeReady ==
    \A r \in Reqs : req[r].pc # "idle" => initPc = "ready"

====
